---- MODULE Spec2Model ----
(***************************************************************************)
(* Verification model of the enumeration-and-validation core of delepwn:   *)
(*   - PrivateKeyCreator        (delepwn/core/key_manager.py)              *)
(*   - handle_api_ratelimit     (delepwn/utils/api.py)                     *)
(*   - OAuthEnumerator          (delepwn/core/oauth_enumerator.py)         *)
(*   - ServiceAccountEnumerator (src/delepwn/gcp_sa_enum.py)               *)
(*   - DomainUserEnumerator     (delepwn/core/domain_users.py)             *)
(*   - the enum command         (delepwn/cli/handler.py, checkdelegation)  *)
(* The remote IAM service, the token endpoint and the local file system    *)
(* are the environment: every call into them has its outcome chosen        *)
(* nondeterministically among the outcomes the call can have.              *)
(***************************************************************************)
EXTENDS Integers, Sequences, FiniteSets, TLC

VARIABLES
    keys_directory,   \* the local key folder: file name -> content of the file
    remote_keys,      \* key resource names that exist at the IAM service
    next_key_id,      \* id the IAM service gives to the next key it creates
    last_call,        \* what the most recent PrivateKeyCreator call did
    prev_call,        \* summary of the call before it
    func_outcomes,    \* what the wrapped call does on its successive invocations
    wrapped_call,     \* what one call of handle_api_ratelimit's wrapper did
    scopes_file,      \* the lines of the scopes file, or NoFile
    scopes,           \* OAuthEnumerator.scopes: the keys of the dict, in order
    user_emails,      \* OAuthEnumerator.user_emails
    key_folder_exists,\* os.path.exists(self.key_folder)
    pc,               \* where OAuthEnumerator.run is
    total_combinations,   \* the local of run
    jwt_objects,      \* the list jwt_creator returned
    attempted,        \* the combinations creds.refresh was called for
    last_outcome,     \* what the last combination's refresh and tokeninfo did
    valid_results,    \* OAuthEnumerator.valid_results
    confirmed_dwd_keys,   \* OAuthEnumerator.confirmed_dwd_keys
    granted,          \* the combinations whose tokeninfo request returned 200
    project_policies, \* project id -> bindings of the project's IAM policy
    sa_policies,      \* account name -> bindings of the account's IAM policy
    enum_pc,          \* where enumerate_service_accounts is
    enum_log,         \* what it did for each service account it reached
    single_test_email,\* DomainUserEnumerator.single_test_email
    domain_users_call,\* how list_unique_domain_users ended
    token,            \* the GCP_BEARER_ACCESS_TOKEN environment variable
    cmd_pc,           \* where the enum command is
    exit_status       \* exit status of the process, -1 while it runs

key_vars == <<keys_directory, remote_keys, next_key_id, last_call, prev_call>>
rate_vars == <<func_outcomes, wrapped_call>>
oauth_input_vars == <<scopes_file, scopes, user_emails, key_folder_exists>>
oauth_scan_vars == <<pc, total_combinations, jwt_objects, attempted,
                     last_outcome, valid_results, confirmed_dwd_keys,
                     granted>>
oauth_vars == <<oauth_input_vars, oauth_scan_vars>>
enum_vars == <<project_policies, sa_policies, enum_pc, enum_log>>
domain_vars == <<single_test_email, domain_users_call>>
cli_vars == <<token, cmd_pc, exit_status>>
tool_vars == <<enum_vars, domain_vars, cli_vars>>
vars == <<key_vars, rate_vars, oauth_vars, tool_vars>>

-----------------------------------------------------------------------------
(* Bounds *)

\* the IAM service creates at most this many keys in one behaviour
MaxKeyId == 3

\* ... and at most this many when the folder starts with imported files
MaxImportedKeyId == 1

\* the scopes file has at most this many lines
MaxScopeLines == 3

\* the target-user set has at most this many emails
MaxUsers == 2

\* one scan has at most this many (key, user, scope) combinations
MaxCombinations == 6

\* a project's IAM policy has at most this many bindings
MaxBindings == 2

-----------------------------------------------------------------------------
(* Names, paths and files *)

KEYS_DIR == "SA_private_keys"

\* the service accounts the enumerator hands to the key creator
ServiceAccounts ==
    { [project |-> "p1",          email |-> "a@p1.iam"],
      [project |-> "corp.com:p2", email |-> "c@p2.iam"] }

\* account['name'] as listed by the IAM service, split at '/'
account_name(account) ==
    <<"projects", account.project, "serviceAccounts", account.email>>

\* service_account_path.split('/')[-1]
sa_email_of(service_account_path) ==
    service_account_path[Len(service_account_path)]

\* str.replace(':', '_') on one path segment
replace_colon(segment) ==
    IF segment = "corp.com:p2" THEN "corp.com_p2" ELSE segment

RECURSIVE join_underscore(_)
join_underscore(segments) ==
    IF Len(segments) = 1 THEN replace_colon(segments[1])
    ELSE replace_colon(segments[1]) \o "_" \o join_underscore(Tail(segments))

\* service_account_path.replace('/', '_').replace(':', '_') + ".json"
file_name_of(service_account_path) ==
    join_underscore(service_account_path) \o ".json"

\* os.path.join(self.keys_directory, key_file)
path_join(directory, key_file) == <<directory, key_file>>

\* os.path.basename(path)
basename(path) == path[Len(path)]

\* projects/{project_id}/serviceAccounts/{client_email}/keys/{key_id}
full_key_name(project_id, client_email, key_id) ==
    <<"projects", project_id, "serviceAccounts", client_email, "keys", key_id>>

NoKey == <<>>

\* a field the JSON object does not have reads as "" (string) or 0 (key id)
has_all_fields(key_data) ==
    /\ key_data.private_key_id # 0
    /\ key_data.project_id # ""
    /\ key_data.client_email # ""

remove_file(dir, key_file) ==
    [f \in (DOMAIN dir) \ {key_file} |-> dir[f]]

RECURSIVE set_to_seq(_)
set_to_seq(S) ==
    IF S = {} THEN <<>>
    ELSE LET x == CHOOSE y \in S : TRUE
         IN  <<x>> \o set_to_seq(S \ {x})

reverse(s) == [i \in 1..Len(s) |-> s[Len(s) + 1 - i]]

\* os.listdir: the entries of the folder in one of the orders it may give
listdir(dir, reversed) ==
    IF reversed THEN reverse(set_to_seq(DOMAIN dir))
    ELSE set_to_seq(DOMAIN dir)

-----------------------------------------------------------------------------
(* PrivateKeyCreator.check_existing_key *)

\* key_data.get('client_email') == sa_email
matches_account(key_data, sa_email) ==
    key_data.valid_json /\ key_data.client_email = sa_email

folder_keeps_invalid(dir, key_file, rm_fail) == dir

\* f.close() ; os.remove(file_path), with OSError caught and reported
folder_after_invalid(dir, key_file, rm_fail) ==
    IF key_file \in rm_fail THEN dir ELSE remove_file(dir, key_file)

RECURSIVE check_existing_key_loop(_, _, _, _, _)
check_existing_key_loop(listing, dir, sa_email, refresh_ok, rm_fail) ==
    IF listing = <<>> THEN [found |-> FALSE, dir |-> dir]
    ELSE LET key_file == Head(listing)
         IN  IF matches_account(dir[key_file], sa_email)
             THEN IF key_file \in refresh_ok
                  THEN [found |-> TRUE, dir |-> dir]
                  ELSE check_existing_key_loop(Tail(listing),
                          folder_after_invalid(dir, key_file, rm_fail),
                          sa_email, refresh_ok, rm_fail)
             ELSE check_existing_key_loop(Tail(listing), dir, sa_email,
                                          refresh_ok, rm_fail)

check_existing_key_never(dir, service_account_path, listing, refresh_ok, rm_fail) ==
    check_existing_key_loop(listing, dir, file_name_of(service_account_path),
                            refresh_ok, rm_fail)

check_existing_key(dir, service_account_path, listing, refresh_ok, rm_fail) ==
    check_existing_key_loop(listing, dir, sa_email_of(service_account_path),
                            refresh_ok, rm_fail)

-----------------------------------------------------------------------------
(* PrivateKeyCreator.create_service_account_key *)

\* the credentials file the IAM service returns in privateKeyData
new_key_data(service_account_path, key_id) ==
    [ valid_json     |-> TRUE,
      client_email   |-> service_account_path[4],
      project_id     |-> service_account_path[2],
      private_key_id |-> key_id,
      origin         |-> full_key_name(service_account_path[2],
                                       service_account_path[4], key_id) ]

save_key_by_id(dir, service_account_path, key_data) ==
    LET name == "key_" \o ToString(key_data.private_key_id) \o ".json"
    IN  [f \in (DOMAIN dir) \cup {name} |->
            IF f = name THEN key_data ELSE dir[f]]

\* open(file_path, "w") ; json.dump(key_data, file)
save_key(dir, service_account_path, key_data) ==
    LET name == file_name_of(service_account_path)
    IN  [f \in (DOMAIN dir) \cup {name} |->
            IF f = name THEN key_data ELSE dir[f]]

NoCall ==
    [ op |-> "none", path |-> <<>>, before |-> <<>>, confirmed |-> {},
      found |-> FALSE, refresh_ok |-> {}, create_calls |-> 0,
      delete_calls |-> {}, remote_failed |-> {}, remove_attempted |-> {},
      rm_failed |-> {}, created |-> FALSE ]

summary(call) ==
    [op |-> call.op, path |-> call.path, create_calls |-> call.create_calls]

\* files of the folder that belong to the account, and those of them whose
\* refresh can succeed (the key still exists at the service)
account_files(dir, sa_email) ==
    {f \in DOMAIN dir : matches_account(dir[f], sa_email)}

refreshable(dir, sa_email) ==
    {f \in account_files(dir, sa_email) : dir[f].origin \in remote_keys}

folder_after_create_always(dir, service_account_path, key_data, create_ok) ==
    save_key(dir, service_account_path, key_data)

\* the folder after the try block of create_service_account_key: the key
\* file is written only when keys().create(...).execute() returned
folder_after_create(dir, service_account_path, key_data, create_ok) ==
    IF create_ok THEN save_key(dir, service_account_path, key_data) ELSE dir

create_service_account_key(service_account_path, reversed, refresh_ok, rm_fail, create_ok) ==
    LET chk == check_existing_key(keys_directory, service_account_path,
                                  listdir(keys_directory, reversed),
                                  refresh_ok, rm_fail)
        key_data == new_key_data(service_account_path, next_key_id)
        call == [NoCall EXCEPT !.op = "create",
                               !.path = service_account_path,
                               !.before = keys_directory,
                               !.found = chk.found,
                               !.refresh_ok = refresh_ok,
                               !.rm_failed = rm_fail]
    IN  /\ create_ok => next_key_id <= MaxKeyId
        /\ prev_call' = summary(last_call)
        /\ IF chk.found
           THEN /\ keys_directory' = chk.dir
                /\ last_call' = call
                /\ UNCHANGED <<remote_keys, next_key_id>>
           ELSE /\ keys_directory' =
                       folder_after_create(chk.dir, service_account_path,
                                           key_data, create_ok)
                /\ last_call' = [call EXCEPT !.create_calls = 1,
                                             !.created = create_ok]
                /\ IF create_ok
                   THEN /\ remote_keys' = remote_keys \cup {key_data.origin}
                        /\ next_key_id' = next_key_id + 1
                   ELSE UNCHANGED <<remote_keys, next_key_id>>

CreateKey ==
    \E account \in ServiceAccounts, reversed \in BOOLEAN, create_ok \in BOOLEAN :
      LET sa_email == sa_email_of(account_name(account)) IN
      \E refresh_ok \in SUBSET refreshable(keys_directory, sa_email),
         rm_fail \in SUBSET account_files(keys_directory, sa_email) :
           /\ create_service_account_key(account_name(account), reversed,
                                         refresh_ok, rm_fail, create_ok)
           /\ UNCHANGED <<rate_vars, oauth_vars, tool_vars>>

-----------------------------------------------------------------------------
(* PrivateKeyCreator.delete_keys_without_dwd *)

is_dwd_key_by_dirname(key_file, confirmed) ==
    key_file \in {path[1] : path \in confirmed}

\* key_file in dwd_filenames
is_dwd_key(key_file, confirmed) ==
    key_file \in {basename(path) : path \in confirmed}

reaches_local_remove_always(key_data, remote_deleted) == key_data.valid_json

\* os.remove(key_path) is reached when the file was read and the remote
\* delete, where one was made, did not raise
reaches_local_remove(key_data, remote_deleted) ==
    /\ key_data.valid_json
    /\ has_all_fields(key_data) => remote_deleted

key_name_of(key_data) ==
    full_key_name(key_data.project_id, key_data.client_email,
                  key_data.private_key_id)

delete_keys_without_dwd(confirmed, remote_fail, rm_fail) ==
    LET dir      == keys_directory
        to_clean == {f \in DOMAIN dir : ~ is_dwd_key(f, confirmed)}
        calling  == {f \in to_clean :
                        dir[f].valid_json /\ has_all_fields(dir[f])}
        deleted  == {f \in calling : /\ f \notin remote_fail
                                     /\ key_name_of(dir[f]) \in remote_keys}
        removing == {f \in to_clean :
                        reaches_local_remove(dir[f], f \in deleted)}
        removed  == removing \ rm_fail
    IN  /\ prev_call' = summary(last_call)
        /\ remote_keys' = remote_keys \ {key_name_of(dir[f]) : f \in deleted}
        /\ keys_directory' = [f \in (DOMAIN dir) \ removed |-> dir[f]]
        /\ last_call' =
             [NoCall EXCEPT !.op = "delete",
                            !.before = dir,
                            !.confirmed = confirmed,
                            !.delete_calls = {key_name_of(dir[f]) : f \in calling},
                            !.remote_failed = calling \ deleted,
                            !.remove_attempted = removing,
                            !.rm_failed = removing \cap rm_fail]
        /\ UNCHANGED next_key_id

\* the paths OAuthEnumerator builds for the files of the key folder
key_paths(dir) == {path_join(KEYS_DIR, f) : f \in DOMAIN dir}

\* files for which a remote delete call can be made
deletable(dir) ==
    {f \in DOMAIN dir : dir[f].valid_json /\ has_all_fields(dir[f])}

DeleteKeys ==
    \E confirmed \in SUBSET key_paths(keys_directory) :
      LET unconfirmed == {f \in DOMAIN keys_directory :
                            path_join(KEYS_DIR, f) \notin confirmed}
      IN  \E remote_fail \in SUBSET (unconfirmed \cap deletable(keys_directory)),
             rm_fail \in SUBSET unconfirmed :
               /\ delete_keys_without_dwd(confirmed, remote_fail,
                                          rm_fail)
               /\ UNCHANGED <<rate_vars, oauth_vars, tool_vars>>

-----------------------------------------------------------------------------
(* handle_api_ratelimit *)

max_retries == 5
backoff_factor == 2

\* what one invocation of the wrapped function can do
Returns(value)     == [kind |-> "return", status |-> 0, name |-> value]
HttpError(status)  == [kind |-> "HttpError", status |-> status, name |-> "HttpError"]
Raises(name)       == [kind |-> "Exception", status |-> 0, name |-> name]

FuncOutcomes ==
    { Returns("result"), HttpError(429), HttpError(403), HttpError(500),
      Raises("TransportError") }

is_rate_limit_or_server_error(e) == e.status \in {429, 500, 502, 503, 504}

\* e.resp.status == 429
is_rate_limit(e) == e.status = 429

sleep_time_from_zero(attempt) == backoff_factor ^ attempt

\* backoff_factor ** (attempt + 1)
sleep_time(attempt) == backoff_factor ^ (attempt + 1)

\* a bare 'raise' after the loop, where no exception is being handled
bare_raise == Raises("RuntimeError")

RECURSIVE wrapper_loop(_, _, _)
wrapper_loop(outcomes, attempt, sleeps) ==
    IF attempt >= max_retries
    THEN [calls |-> attempt, sleeps |-> sleeps, result |-> bare_raise]
    ELSE LET r == outcomes[attempt + 1]
             ended == [calls |-> attempt + 1, sleeps |-> sleeps, result |-> r]
         IN  IF r.kind = "HttpError" /\ is_rate_limit(r)
             THEN wrapper_loop(outcomes, attempt + 1,
                               Append(sleeps, sleep_time(attempt)))
             ELSE ended

\* handle_api_ratelimit(func)(*args): for attempt in range(max_retries) ...
wrapper(outcomes) == wrapper_loop(outcomes, 0, <<>>)

NotCalled == [calls |-> 0, sleeps |-> <<>>, result |-> Raises("not called")]

CallWrapped ==
    /\ wrapped_call = NotCalled
    /\ wrapped_call' = wrapper(func_outcomes)
    /\ UNCHANGED <<key_vars, func_outcomes, oauth_vars, tool_vars>>

-----------------------------------------------------------------------------
(* OAuthEnumerator *)

NoFile == << <<"no such file">> >>

\* a scopes file that exists but whose open() or readlines() raises
\* (no read permission, a directory, bytes that do not decode)
UnreadableFile == << <<"permission denied">> >>

\* the lines a scopes file is made of, each split at '|'
ScopeLines ==
    << <<" s1 ", " read mail">>, <<"# scopes">>, <<"s2", "read files">>,
       <<"s1", "send mail">>, <<"s3", "manage users">> >>

\* str.strip()
strip(text) == IF text = " s1 " THEN "s1" ELSE text

in_seq(x, seq) == \E i \in 1..Len(seq) : seq[i] = x

any_line(line) == Len(line) >= 1

\* line and '|' in line
has_separator(line) == Len(line) >= 2

RECURSIVE read_scope_lines(_, _)
read_scope_lines(content, scope_keys) ==
    IF content = <<>> THEN scope_keys
    ELSE LET line == Head(content)
             scope == strip(line[1])
         IN  IF has_separator(line) /\ ~ in_seq(scope, scope_keys)
             THEN read_scope_lines(Tail(content), Append(scope_keys, scope))
             ELSE read_scope_lines(Tail(content), scope_keys)

\* the keys of the dict read_scopes_from_file returns, in insertion order
read_scopes_from_file(file) ==
    IF file \in {NoFile, UnreadableFile} THEN <<>>
    ELSE read_scope_lines(file, <<>>)

\* the values of the domain -> email dict the caller passes
DomainUsers == <<"u@corp.com", "v@lab.org", "w@dev.io">>

\* service_account.Credentials.from_service_account_file(json_path) succeeds
loadable(key_data) == key_data.valid_json /\ key_data.client_email # ""

total_jwt_combinations_sum ==
    Len(scopes) * Cardinality(DOMAIN keys_directory) + Len(user_emails)

\* num_scopes * num_keys * num_emails
total_jwt_combinations ==
    Len(scopes) * Cardinality(DOMAIN keys_directory) * Len(user_emails)

RECURSIVE for_scopes(_, _, _)
for_scopes(json_path, user_email, scope_keys) ==
    IF scope_keys = <<>> THEN <<>>
    ELSE <<[json_path |-> json_path, user_email |-> user_email,
            scope |-> Head(scope_keys)]>>
         \o for_scopes(json_path, user_email, Tail(scope_keys))

RECURSIVE for_users(_, _)
for_users(json_path, emails) ==
    IF emails = <<>> THEN <<>>
    ELSE for_scopes(json_path, Head(emails), scopes)
         \o for_users(json_path, Tail(emails))

RECURSIVE for_files(_)
for_files(listing) ==
    IF listing = <<>> THEN <<>>
    ELSE for_users(path_join(KEYS_DIR, Head(listing)), user_emails)
         \o for_files(Tail(listing))

\* jwt_creator raises when from_service_account_file is called for a file
\* it cannot load
jwt_creator_raises ==
    /\ user_emails # <<>>
    /\ scopes # <<>>
    /\ \E f \in DOMAIN keys_directory : ~ loadable(keys_directory[f])

jwt_creator(listing) == for_files(listing)

run_stops_early ==
    \/ scopes_file = NoFile
    \/ Len(scopes) = 0
    \/ ~ key_folder_exists
    \/ DOMAIN keys_directory = {}

run(reversed) ==
    /\ pc = "constructed"
    /\ IF scopes_file = NoFile
       THEN /\ pc' = "no scopes file"
            /\ UNCHANGED <<total_combinations, jwt_objects>>
       ELSE IF Len(scopes) = 0
       THEN /\ pc' = "no scopes"
            /\ UNCHANGED <<total_combinations, jwt_objects>>
       ELSE IF ~ key_folder_exists \/ DOMAIN keys_directory = {}
       THEN /\ pc' = "no keys"
            /\ UNCHANGED <<total_combinations, jwt_objects>>
       ELSE /\ total_combinations' = total_jwt_combinations
            /\ IF jwt_creator_raises
               THEN /\ pc' = "raised"
                    /\ UNCHANGED jwt_objects
               ELSE /\ jwt_objects' = jwt_creator(listdir(keys_directory, reversed))
                    /\ pc' = IF jwt_objects' = <<>> THEN "done" ELSE "validating"
    /\ UNCHANGED <<attempted, last_outcome, valid_results, confirmed_dwd_keys,
                   granted>>

\* what the caller of run() gets back: run has no return value on any path
\* and raises only what jwt_creator raises; check() then reads
\* confirmed_dwd_keys (and results() reads valid_results)
run_reports ==
    [ returned |-> IF pc = "raised" THEN "exception" ELSE "None",
      confirmed_dwd_keys |-> confirmed_dwd_keys,
      valid_results |-> valid_results ]

Run ==
    /\ \E reversed \in BOOLEAN : run(reversed)
    /\ UNCHANGED <<key_vars, rate_vars, oauth_input_vars, tool_vars>>

\* what creds.refresh and, after it, the tokeninfo request can do
StepOutcomes ==
    { "RefreshError", "DefaultCredentialsError", "refresh TransportError",
      "tokeninfo 200", "tokeninfo 400", "tokeninfo ConnectionError" }

\* self.valid_results.setdefault(json_path, []).append(scope)
setdefault_append(results, json_path, scope) ==
    [p \in (DOMAIN results) \cup {json_path} |->
        IF p = json_path
        THEN (IF p \in DOMAIN results THEN results[p] ELSE <<>>) \o <<scope>>
        ELSE results[p]]

append_always(keys, json_path) == Append(keys, json_path)

\* if json_path not in self.confirmed_dwd_keys: append(json_path)
append_if_absent(keys, json_path) ==
    IF in_seq(json_path, keys) THEN keys ELSE Append(keys, json_path)

status_code_any(outcome) == outcome \in {"tokeninfo 200", "tokeninfo 400"}

\* creds.refresh returned, requests.get returned, response.status_code == 200
status_code_200(outcome) == outcome = "tokeninfo 200"

or_refresh_error(outcome) == outcome \in {"tokeninfo 200", "RefreshError"}

\* the try body reaches the two statements that record the combination
records_combination(outcome) == status_code_200(outcome)

\* one iteration of the loop of token_validator
token_validator_step(outcome) ==
    LET jwt == jwt_objects[Len(attempted) + 1]
    IN  /\ attempted' = Append(attempted, jwt)
        /\ last_outcome' = outcome
        /\ granted' = IF outcome = "tokeninfo 200" THEN granted \cup {jwt}
                      ELSE granted
        /\ IF records_combination(outcome)
           THEN /\ valid_results' =
                      setdefault_append(valid_results, jwt.json_path, jwt.scope)
                /\ confirmed_dwd_keys' =
                       append_if_absent(confirmed_dwd_keys, jwt.json_path)
           ELSE UNCHANGED <<valid_results, confirmed_dwd_keys>>
        /\ pc' = IF Len(attempted') = Len(jwt_objects) THEN "done"
                 ELSE "validating"

ValidateToken ==
    /\ pc = "validating"
    /\ \E outcome \in StepOutcomes : token_validator_step(outcome)
    /\ UNCHANGED <<key_vars, rate_vars, oauth_input_vars, tool_vars,
                   total_combinations, jwt_objects>>

OAuthIdle ==
    /\ scopes_file = NoFile
    /\ scopes = <<>>
    /\ user_emails = <<>>
    /\ key_folder_exists = TRUE
    /\ pc = "idle"
    /\ total_combinations = 0
    /\ jwt_objects = <<>>
    /\ attempted = <<>>
    /\ last_outcome = "none"
    /\ valid_results = <<>>
    /\ confirmed_dwd_keys = <<>>
    /\ granted = {}

-----------------------------------------------------------------------------
(* ServiceAccountEnumerator *)

\* An email or member identifier is kept as its parts around '@', a binding
\* member as the prefix before its first ':' ("" when it has no ':') and the
\* identifier after it.
Member(prefix, identifier) == [prefix |-> prefix, identifier |-> identifier]

\* self.user_email, the email get_iam_email_from_token found for the token
enumerator_user_email == <<"me", "corp.com">>

\* what get_projects returns
Projects == <<"p1", "corp.com:p2">>

seq_to_set(s) == {s[i] : i \in 1..Len(s)}

\* response.get('includedPermissions', []) of roles().get(name=role)
includedPermissions(role) ==
    CASE role = "roles/iam.serviceAccountKeyAdmin" ->
            {"iam.serviceAccountKeys.create", "iam.serviceAccountKeys.delete"}
      [] role = "projects/p1/roles/keyMaker" ->
            {"iam.serviceAccountKeys.create"}
      [] role = "roles/viewer" -> {"resourcemanager.projects.get"}
      [] OTHER -> {}

check_permission_any_role(role, lookup_fails) == role \notin lookup_fails

\* False when the role lookup raises, else the membership test
check_permission(role, lookup_fails) ==
    /\ role \notin lookup_fails
    /\ "iam.serviceAccountKeys.create" \in includedPermissions(role)

\* member_id == self.user_email, and member == self.user_email for a member
\* without ':'
is_user_email(member) == member.identifier = enumerator_user_email

RECURSIVE append_roles(_, _, _)
append_roles(members, role, roles) ==
    IF members = <<>> THEN roles
    ELSE append_roles(Tail(members), role,
                      IF is_user_email(Head(members))
                      THEN Append(roles, role) ELSE roles)

RECURSIVE roles_from_bindings(_, _)
roles_from_bindings(bindings, roles) ==
    IF bindings = <<>> THEN roles
    ELSE roles_from_bindings(Tail(bindings),
             append_roles(Head(bindings).members, Head(bindings).role, roles))

get_project_roles(project_id) ==
    roles_from_bindings(project_policies[project_id], <<>>)

\* _, member_identifier = member.split(':', 1) raises ValueError for a
\* member without ':'
split_raises(bindings) ==
    \E i \in 1..Len(bindings) :
        \E j \in 1..Len(bindings[i].members) :
            bindings[i].members[j].prefix = ""

get_service_account_roles(service_account) ==
    IF split_raises(sa_policies[service_account])
    THEN [raises |-> TRUE, roles |-> <<>>]
    ELSE [raises |-> FALSE,
          roles |-> roles_from_bindings(sa_policies[service_account], <<>>)]

\* response['accounts'] of serviceAccounts().list for one project
accounts_of(project_id) ==
    set_to_seq({a \in ServiceAccounts : a.project = project_id})

\* the accounts in the order the two loops reach them
RECURSIVE enumeration_order(_)
enumeration_order(projects) ==
    IF projects = <<>> THEN <<>>
    ELSE accounts_of(Head(projects)) \o enumeration_order(Tail(projects))

\* how the remote calls made for one account end: all return, or
\* serviceAccounts().list, projects().getIamPolicy or
\* serviceAccounts().getIamPolicy raises, or the service answers the first
\* request of one of them with 429
ApiOutcomes ==
    {"ok", "list raised", "project policy raised", "sa policy raised",
     "list 429", "project policy 429", "sa policy 429"}

\* the functions of the enumerator that carry @handle_api_ratelimit
decorated(site) ==
    site \in {"get_service_account_details", "get_project_roles",
              "get_projects"}

\* a request answered with 429 and, if it is made again, with the result
throttled_once == <<HttpError(429), Returns("result")>>

\* a call made through the decorator, or made directly
call_through(site, outcomes) ==
    IF decorated(site) THEN wrapper(outcomes)
    ELSE [calls |-> 1, sleeps |-> <<>>, result |-> outcomes[1]]

\* the roles both role functions return for the account
fetched_roles(account) ==
    seq_to_set(get_project_roles(account.project)
               \o get_service_account_roles(account_name(account)).roles)

\* one iteration of the account loop of enumerate_service_accounts, with
\* the serviceAccounts().list call of the project before its first account
enumerate_step(api, lookup_fails, reversed, refresh_ok, rm_fail, create_ok) ==
    LET order == enumeration_order(Projects)
        index == Len(enum_log) + 1
        account == order[index]
        first_of_project ==
            index = 1 \/ order[index - 1].project # account.project
        service_account_roles ==
            get_service_account_roles(account_name(account))
        all_roles == fetched_roles(account)
        is_candidate ==
            \E role \in all_roles : check_permission(role, lookup_fails)
        throttled ==
            IF api = "list 429" /\ first_of_project
            THEN "serviceAccounts().list"
            ELSE IF api = "project policy 429" THEN "get_project_roles"
            ELSE IF api = "sa policy 429" THEN "get_service_account_roles"
            ELSE "none"
        throttled_call ==
            IF throttled = "none" THEN NotCalled
            ELSE call_through(throttled, throttled_once)
        propagated ==
            throttled # "none" /\ throttled_call.result.kind = "HttpError"
        outcome ==
            IF api = "list raised" /\ first_of_project THEN "list raised"
            ELSE IF propagated /\ throttled = "serviceAccounts().list"
            THEN "list raised"
            ELSE IF api = "project policy raised"
            THEN "project policy raised"
            ELSE IF propagated /\ throttled = "get_project_roles"
            THEN "project policy raised"
            ELSE IF api = "sa policy raised" THEN "sa policy raised"
            ELSE IF propagated /\ throttled = "get_service_account_roles"
            THEN "sa policy raised"
            ELSE IF service_account_roles.raises THEN "ValueError"
            ELSE IF is_candidate THEN "create_service_account_key"
            ELSE "no relevant roles"
        decided == outcome \in {"create_service_account_key",
                                "no relevant roles"}
    IN  /\ enum_log' = Append(enum_log,
              [ account |-> account_name(account),
                outcome |-> outcome,
                all_roles |-> IF decided THEN all_roles ELSE {},
                lookup_fails |-> IF decided THEN lookup_fails ELSE {},
                throttled |-> throttled,
                calls |-> throttled_call.calls,
                sleeps |-> throttled_call.sleeps ])
        /\ enum_pc' = IF ~ decided THEN "raised"
                      ELSE IF index = Len(order) THEN "returned"
                      ELSE "running"
        /\ IF outcome = "create_service_account_key"
           THEN create_service_account_key(account_name(account), reversed,
                                           refresh_ok, rm_fail, create_ok)
           ELSE UNCHANGED key_vars

EnumerateServiceAccounts ==
    /\ enum_pc \in {"called", "running"}
    /\ \E api \in ApiOutcomes, reversed \in BOOLEAN, create_ok \in BOOLEAN :
         LET account == enumeration_order(Projects)[Len(enum_log) + 1]
             sa_email == sa_email_of(account_name(account))
         IN  \E lookup_fails \in SUBSET fetched_roles(account),
                refresh_ok \in SUBSET refreshable(keys_directory, sa_email),
                rm_fail \in SUBSET account_files(keys_directory, sa_email) :
                  enumerate_step(api, lookup_fails, reversed, refresh_ok,
                                 rm_fail, create_ok)
    /\ UNCHANGED <<rate_vars, oauth_vars, domain_vars, cli_vars,
                   project_policies, sa_policies>>

EnumIdle ==
    /\ project_policies = <<>>
    /\ sa_policies = <<>>
    /\ enum_pc = "idle"
    /\ enum_log = <<>>

-----------------------------------------------------------------------------
(* DomainUserEnumerator *)

\* member.startswith('user:')
startswith_user(member) == member.prefix = "user"

\* email.endswith('.gserviceaccount.com')
endswith_gserviceaccount(email) ==
    email[Len(email)] \in {"p1.iam.gserviceaccount.com"}

contains_at(email) == Len(email) >= 2

\* '@' in email and not email.endswith('.gserviceaccount.com')
is_domain_user(email) == Len(email) >= 2 /\ ~ endswith_gserviceaccount(email)

\* domain in unique_domains; the dict is kept as its (domain, email) items
\* in insertion order
has_domain(unique_domains, domain) ==
    \E i \in 1..Len(unique_domains) : unique_domains[i][1] = domain

\* the loop over binding['members']: the first user: member of a domain not
\* seen before is recorded and break leaves the loop
RECURSIVE members_loop(_, _)
members_loop(members, unique_domains) ==
    IF members = <<>> THEN unique_domains
    ELSE LET member == Head(members)
             email == member.identifier
         IN  IF /\ startswith_user(member)
                /\ is_domain_user(email)
                /\ ~ has_domain(unique_domains, email[2])
             THEN Append(unique_domains, <<email[2], email>>)
             ELSE members_loop(Tail(members), unique_domains)

RECURSIVE bindings_loop(_, _)
bindings_loop(bindings, unique_domains) ==
    IF bindings = <<>> THEN unique_domains
    ELSE bindings_loop(Tail(bindings),
                       members_loop(Head(bindings).members, unique_domains))

RECURSIVE projects_loop(_, _)
projects_loop(projects, unique_domains) ==
    IF projects = <<>> THEN unique_domains
    ELSE projects_loop(Tail(projects),
             bindings_loop(project_policies[Head(projects)], unique_domains))

\* api: every call returns, or get_projects or a getIamPolicy call raises
list_unique_domain_users(api) ==
    IF api = "ok"
    THEN /\ single_test_email' = projects_loop(Projects, <<>>)
         /\ domain_users_call' = "returned"
    ELSE /\ domain_users_call' = "raised"
         /\ UNCHANGED single_test_email

ListUniqueDomainUsers ==
    /\ domain_users_call = "not called"
    /\ \E api \in {"ok", "get_projects raised", "getIamPolicy raised"} :
          list_unique_domain_users(api)
    /\ UNCHANGED <<key_vars, rate_vars, oauth_vars, enum_vars, cli_vars>>

DomainIdle ==
    /\ single_test_email = <<>>
    /\ domain_users_call = "idle"

-----------------------------------------------------------------------------
(* The enum command *)

\* GCP_BEARER_ACCESS_TOKEN is not set, or holds a token that tokeninfo
\* rejects, or a user's token, or a service account's token (tokeninfo
\* reports no email for it) issued to a client no visible account has
TokenStates == {"unset", "expired", "valid", "unattributed"}

None == "None"

\* token_info['email'] of the user's token
token_info_email == "me@corp.com"

\* token_info.get('issued_to') of the service account's token
issued_to == "client 9"

\* sa_details.get('oauth2ClientId')
oauth2ClientId(account) ==
    IF account.project = "p1" THEN "client 1" ELSE "client 2"

find_any_account(client_id) ==
    (CHOOSE a \in ServiceAccounts : TRUE).email

find_service_account_email_by_client_id(client_id) ==
    IF \E a \in ServiceAccounts : oauth2ClientId(a) = client_id
    THEN (CHOOSE a \in ServiceAccounts : oauth2ClientId(a) = client_id).email
    ELSE None

\* ServiceAccountEnumerator.user_email for a token that is set
get_iam_email_from_token(tok) ==
    CASE tok = "expired" -> None
      [] tok = "unattributed" ->
             find_service_account_email_by_client_id(issued_to)
      [] OTHER -> token_info_email

\* args.email
testEmail == <<"target", "corp.com">>

\* list(single_test_email.values())
dict_values(items) == [i \in 1..Len(items) |-> items[i][2]]

\* handle_enum_command up to its call of check: sys.exit(1) without a
\* token; without user_email the exception raised goes through main, which
\* ends with sys.exit(1)
handle_enum_command ==
    IF token = "unset" \/ get_iam_email_from_token(token) = None
    THEN /\ exit_status' = 1
         /\ cmd_pc' = "exited"
         /\ UNCHANGED enum_pc
    ELSE /\ cmd_pc' = "check"
         /\ enum_pc' = "called"
         /\ UNCHANGED exit_status

HandleEnumCommand ==
    /\ cmd_pc = "command"
    /\ handle_enum_command
    /\ UNCHANGED <<key_vars, rate_vars, oauth_vars, domain_vars, token,
                   project_policies, sa_policies, enum_log>>

\* check returns and with it handle_enum_command and main: the process ends
\* with status 0
check_returns ==
    /\ exit_status' = 0
    /\ cmd_pc' = "exited"
    /\ UNCHANGED token

\* OAuthEnumerator.__init__
oauth_enumerator_init(emails) ==
    /\ scopes' = read_scopes_from_file(scopes_file)
    /\ user_emails' = emails
    /\ pc' = "constructed"
    /\ UNCHANGED <<scopes_file, key_folder_exists, total_combinations,
                   jwt_objects, attempted, last_outcome, valid_results,
                   confirmed_dwd_keys, granted>>

\* check, from the return of enumerate_service_accounts to the call of run
check_builds_oauth_enumerator(use_test_email, api) ==
    IF use_test_email
    THEN /\ oauth_enumerator_init(<<testEmail>>)
         /\ UNCHANGED <<domain_vars, cli_vars>>
    ELSE /\ list_unique_domain_users(api)
         /\ IF api = "ok"
            THEN /\ oauth_enumerator_init(dict_values(single_test_email'))
                 /\ UNCHANGED cli_vars
            ELSE /\ check_returns
                 /\ UNCHANGED oauth_vars

CheckBuildsOAuthEnumerator ==
    /\ cmd_pc = "check"
    /\ enum_pc = "returned"
    /\ pc = "idle"
    /\ \E use_test_email \in BOOLEAN,
          api \in {"ok", "get_projects raised", "getIamPolicy raised"} :
            check_builds_oauth_enumerator(use_test_email, api)
    /\ UNCHANGED <<key_vars, rate_vars, enum_vars>>

\* the except clause of check, for what enumerate_service_accounts or run
\* raised
CheckCatchesException ==
    /\ cmd_pc = "check"
    /\ enum_pc = "raised" \/ pc = "raised"
    /\ check_returns
    /\ UNCHANGED <<key_vars, rate_vars, oauth_vars, enum_vars, domain_vars>>

\* check after run returned: delete_keys_without_dwd(confirmed_dwd_keys)
CheckDeletesKeys ==
    /\ cmd_pc = "check"
    /\ pc \in {"no scopes file", "no scopes", "no keys", "done"}
    /\ LET confirmed == seq_to_set(confirmed_dwd_keys)
           unconfirmed == {f \in DOMAIN keys_directory :
                              path_join(KEYS_DIR, f) \notin confirmed}
       IN  \E remote_fail \in SUBSET (unconfirmed \cap deletable(keys_directory)),
              rm_fail \in SUBSET unconfirmed :
                delete_keys_without_dwd(confirmed, remote_fail, rm_fail)
    /\ check_returns
    /\ UNCHANGED <<rate_vars, oauth_vars, enum_vars, domain_vars>>

CliIdle ==
    /\ token = "valid"
    /\ cmd_pc = "idle"
    /\ exit_status = -1

-----------------------------------------------------------------------------
(* Specifications *)

KeyStoreEmpty ==
    /\ keys_directory = <<>>
    /\ remote_keys = {}
    /\ next_key_id = 1
    /\ last_call = NoCall
    /\ prev_call = summary(NoCall)

\* the variables of the components that take no part in a specification
RateIdle ==
    /\ func_outcomes = <<>>
    /\ wrapped_call = NotCalled

ToolIdle == EnumIdle /\ DomainIdle /\ CliIdle

InitKeys == KeyStoreEmpty /\ RateIdle /\ OAuthIdle /\ ToolIdle

NextKeys == CreateKey \/ DeleteKeys

\* the key store, starting from the empty folder __init__ creates
Spec == InitKeys /\ [][NextKeys]_vars

InitRateLimit ==
    /\ KeyStoreEmpty
    /\ OAuthIdle
    /\ ToolIdle
    /\ func_outcomes \in [1..max_retries -> FuncOutcomes]
    /\ wrapped_call = NotCalled

\* one call through the rate-limit wrapper, for every behaviour of the
\* wrapped function over max_retries invocations
SpecRateLimit == InitRateLimit /\ [][CallWrapped]_vars

\* files already in the key folder when the tool starts: a key file without
\* private_key_id and a file that is not JSON
ImportedFiles ==
    [ f \in {"imported_nokeyid.json", "notes.json"} |->
        IF f = "imported_nokeyid.json"
        THEN [ valid_json |-> TRUE, client_email |-> "a@p1.iam",
               project_id |-> "p1", private_key_id |-> 0,
               origin |-> full_key_name("p1", "a@p1.iam", 101) ]
        ELSE [ valid_json |-> FALSE, client_email |-> "",
               project_id |-> "", private_key_id |-> 0,
               origin |-> NoKey ] ]

InitImported ==
    /\ RateIdle
    /\ OAuthIdle
    /\ ToolIdle
    /\ \E present \in SUBSET DOMAIN ImportedFiles :
         /\ keys_directory = [f \in present |-> ImportedFiles[f]]
         /\ \E live \in SUBSET ({ImportedFiles[f].origin : f \in present}
                                      \ {NoKey}) :
              remote_keys = live
    /\ next_key_id = 1
    /\ last_call = NoCall
    /\ prev_call = summary(NoCall)

NextImported ==
    \/ CreateKey /\ next_key_id' <= MaxImportedKeyId + 1
    \/ DeleteKeys

\* the key store, starting from a folder that already holds files
SpecImported == InitImported /\ [][NextImported]_vars

\* key files in the folder when OAuthEnumerator is constructed: the keys
\* created for the two accounts and a file that is not a key
ScannedFiles ==
    [ f \in {file_name_of(account_name(a)) : a \in ServiceAccounts}
            \cup {"notes.json"} |->
        IF f = "notes.json" THEN ImportedFiles[f]
        ELSE LET a == CHOOSE a \in ServiceAccounts :
                          file_name_of(account_name(a)) = f
             IN  new_key_data(account_name(a),
                              IF a.project = "p1" THEN 1 ELSE 2) ]

RECURSIVE select_lines(_, _, _)
select_lines(lines, i, chosen) ==
    IF i > Len(lines) THEN <<>>
    ELSE (IF i \in chosen THEN <<lines[i]>> ELSE <<>>)
         \o select_lines(lines, i + 1, chosen)

\* the scopes files of at most n lines
scope_files(n) ==
    { select_lines(ScopeLines, 1, chosen) :
        chosen \in {c \in SUBSET (1..Len(ScopeLines)) : Cardinality(c) <= n} }

\* OAuthEnumerator.__init__ over a scopes file, a key folder and the
\* target users
InitOAuth ==
    /\ RateIdle
    /\ ToolIdle
    /\ \E present \in SUBSET DOMAIN ScannedFiles :
         /\ keys_directory = [f \in present |-> ScannedFiles[f]]
         /\ remote_keys = {ScannedFiles[f].origin : f \in present} \ {NoKey}
         /\ key_folder_exists \in (IF present = {} THEN BOOLEAN ELSE {TRUE})
    /\ next_key_id = 3
    /\ last_call = NoCall
    /\ prev_call = summary(NoCall)
    /\ scopes_file \in {NoFile, UnreadableFile} \cup scope_files(MaxScopeLines)
    /\ scopes = read_scopes_from_file(scopes_file)
    /\ \E n \in 0..MaxUsers : user_emails = SubSeq(DomainUsers, 1, n)
    /\ Cardinality(DOMAIN keys_directory) * Len(scopes) * Len(user_emails)
           <= MaxCombinations
    /\ pc = "constructed"
    /\ total_combinations = 0
    /\ jwt_objects = <<>>
    /\ attempted = <<>>
    /\ last_outcome = "none"
    /\ valid_results = <<>>
    /\ confirmed_dwd_keys = <<>>
    /\ granted = {}

NextOAuth == Run \/ ValidateToken

\* one OAuthEnumerator, constructed and run once
SpecOAuth == InitOAuth /\ [][NextOAuth]_vars

\* the bindings a project policy is made of when the caller's roles are
\* looked up
ProjectPolicyChoices ==
    { <<>>,
      << [role |-> "roles/viewer",
          members |-> << Member("user", enumerator_user_email) >>] >>,
      << [role |-> "roles/iam.serviceAccountKeyAdmin",
          members |-> << Member("", <<"allUsers">>),
                         Member("user", enumerator_user_email) >>] >>,
      << [role |-> "roles/viewer",
          members |-> << Member("user", enumerator_user_email) >>],
         [role |-> "projects/p1/roles/keyMaker",
          members |-> << Member("user", <<"bob", "lab.org">>),
                         Member("user", enumerator_user_email) >>] >>,
      << [role |-> "roles/iam.serviceAccountKeyAdmin",
          members |-> << Member("user", <<"bob", "lab.org">>) >>] >> }

SAPolicyChoices ==
    { <<>>,
      << [role |-> "roles/iam.serviceAccountKeyAdmin",
          members |-> << Member("user", enumerator_user_email) >>] >>,
      << [role |-> "roles/viewer",
          members |-> << Member("user", enumerator_user_email),
                         Member("", <<"allUsers">>) >>] >>,
      << [role |-> "roles/viewer",
          members |-> << Member("serviceAccount",
                                <<"sa", "p1.iam.gserviceaccount.com">>),
                         Member("user", enumerator_user_email) >>] >> }

InitEnum ==
    /\ KeyStoreEmpty
    /\ RateIdle
    /\ OAuthIdle
    /\ DomainIdle
    /\ CliIdle
    /\ project_policies \in [seq_to_set(Projects) -> ProjectPolicyChoices]
    /\ sa_policies \in [{account_name(a) : a \in ServiceAccounts}
                            -> SAPolicyChoices]
    /\ enum_pc = "called"
    /\ enum_log = <<>>

\* one call of enumerate_service_accounts, over every pair of project
\* policies and every pair of service-account policies
SpecEnum == InitEnum /\ [][EnumerateServiceAccounts]_vars

\* the policies the enum command runs over
CommandProjectPolicies ==
    { p \in ProjectPolicyChoices :
        Len(p) = 0 \/ (Len(p) = 2 /\ p[1].role = "roles/viewer") }

CommandSAPolicies == { p \in SAPolicyChoices : Len(p) = 0 }

\* the scopes files the enum command runs over: none, an empty one, one
\* with a comment only and one with a scope
CommandScopesFiles ==
    { NoFile, <<>>, <<ScopeLines[2]>>, <<ScopeLines[3]>> }

InitEnumCommand ==
    /\ KeyStoreEmpty
    /\ RateIdle
    /\ token \in TokenStates
    /\ cmd_pc = "command"
    /\ exit_status = -1
    /\ project_policies \in [seq_to_set(Projects) -> CommandProjectPolicies]
    /\ sa_policies \in [{account_name(a) : a \in ServiceAccounts}
                            -> CommandSAPolicies]
    /\ enum_pc = "idle"
    /\ enum_log = <<>>
    /\ single_test_email = <<>>
    /\ domain_users_call = "not called"
    /\ scopes_file \in CommandScopesFiles
    /\ scopes = <<>>
    /\ user_emails = <<>>
    /\ key_folder_exists = TRUE
    /\ pc = "idle"
    /\ total_combinations = 0
    /\ jwt_objects = <<>>
    /\ attempted = <<>>
    /\ last_outcome = "none"
    /\ valid_results = <<>>
    /\ confirmed_dwd_keys = <<>>
    /\ granted = {}

NextEnumCommand ==
    \/ HandleEnumCommand
    \/ EnumerateServiceAccounts
    \/ CheckBuildsOAuthEnumerator
    \/ Run
    \/ ValidateToken
    \/ CheckCatchesException
    \/ CheckDeletesKeys

\* one run of the enum command, from the token check to the exit status
SpecEnumCommand == InitEnumCommand /\ [][NextEnumCommand]_vars

\* the bindings a project policy is made of when domain users are looked up
UserBindings ==
    { [role |-> "roles/owner",
       members |-> << Member("user", <<"alice", "corp.com">>),
                      Member("user", <<"bob", "lab.org">>) >>],
      [role |-> "roles/editor",
       members |-> << Member("serviceAccount",
                             <<"sa", "p1.iam.gserviceaccount.com">>),
                      Member("user", <<"bot", "p1.iam.gserviceaccount.com">>),
                      Member("user", <<"carol", "corp.com">>) >>],
      [role |-> "roles/viewer",
       members |-> << Member("", <<"allUsers">>),
                      Member("group", <<"staff", "dev.io">>),
                      Member("user", <<"dave", "lab.org">>),
                      Member("user", <<"local">>) >>],
      [role |-> "roles/browser",
       members |-> << Member("user", <<"erin", "dev.io">>),
                      Member("user", <<"alice", "corp.com">>) >>] }

\* the policies of at most n bindings
user_policies(n) == UNION {[1..k -> UserBindings] : k \in 0..n}

InitDomainUsers ==
    /\ KeyStoreEmpty
    /\ RateIdle
    /\ OAuthIdle
    /\ CliIdle
    /\ project_policies \in [seq_to_set(Projects) -> user_policies(MaxBindings)]
    /\ sa_policies = <<>>
    /\ enum_pc = "idle"
    /\ enum_log = <<>>
    /\ single_test_email = <<>>
    /\ domain_users_call = "not called"

\* one call of list_unique_domain_users, over every pair of project policies
SpecDomainUsers == InitDomainUsers /\ [][ListUniqueDomainUsers]_vars

-----------------------------------------------------------------------------
(* Properties of the key store *)

removed_by_last_call ==
    (DOMAIN last_call.before) \ (DOMAIN keys_directory)

\* C1: after delete_keys_without_dwd(confirmed), whatever the remote delete
\* calls did (and with no os.remove failing), every file left in the folder
\* has its path in confirmed and every file whose path is not in confirmed
\* is gone.
ReconciliationSafety ==
    (last_call.op = "delete" /\ last_call.rm_failed = {}) =>
        /\ \A f \in DOMAIN keys_directory :
              path_join(KEYS_DIR, f) \in last_call.confirmed
        /\ \A f \in DOMAIN last_call.before :
              path_join(KEYS_DIR, f) \notin last_call.confirmed
                  => f \notin DOMAIN keys_directory

\* C2 as stated: delete_keys_without_dwd never removes a local file whose
\* remote key still exists, files with a missing field included.
NoLocalRemovalWithLiveRemoteKey ==
    last_call.op = "delete" =>
        \A f \in removed_by_last_call :
            last_call.before[f].origin \notin remote_keys

\* C2 amended: a removed file that has private_key_id, project_id and
\* client_email had its remote key deleted first; a removed file that lacks
\* one of them was removed without any remote delete call.
RemoteDeletedBeforeLocalRemoval ==
    last_call.op = "delete" =>
        \A f \in removed_by_last_call :
            LET key_data == last_call.before[f] IN
            IF has_all_fields(key_data)
            THEN /\ key_name_of(key_data) \in last_call.delete_calls
                 /\ f \notin last_call.remote_failed
                 /\ key_name_of(key_data) \notin remote_keys
            ELSE key_name_of(key_data) \notin last_call.delete_calls

RemoteDeletedBeforeLocalRemovalWitness ==
    /\ last_call.op = "delete"
    /\ \E f \in removed_by_last_call : has_all_fields(last_call.before[f])
    /\ \E f \in removed_by_last_call :
          /\ ~ has_all_fields(last_call.before[f])
          /\ last_call.before[f].origin \in remote_keys

\* C3: when the remote deletion of a non-confirmed key fails, the local file
\* is still removed (os.remove is still attempted for it).
LocalDeletionAfterRemoteFailure ==
    last_call.op = "delete" =>
        \A f \in last_call.remote_failed : f \in last_call.remove_attempted

\* C4: for a key file whose path is in confirmed, no remote delete call is
\* made and the file is still there, unchanged, afterwards.
ConfirmedKeysRetained ==
    last_call.op = "delete" =>
        \A f \in DOMAIN last_call.before :
            path_join(KEYS_DIR, f) \in last_call.confirmed =>
                /\ f \in DOMAIN keys_directory
                /\ keys_directory[f] = last_call.before[f]
                /\ key_name_of(last_call.before[f]) \notin last_call.delete_calls

ConfirmedKeysRetainedWitness ==
    /\ last_call.op = "delete"
    /\ \E f \in DOMAIN last_call.before :
          /\ path_join(KEYS_DIR, f) \in last_call.confirmed
          /\ f \in DOMAIN keys_directory
    /\ removed_by_last_call # {}

\* the account's key stayed valid for the second call: the folder held a key
\* file of the account whose refresh succeeded
key_stays_valid ==
    \E f \in account_files(last_call.before, sa_email_of(last_call.path)) :
        f \in last_call.refresh_ok

two_calls_for_same_account ==
    /\ prev_call.op = "create"
    /\ last_call.op = "create"
    /\ prev_call.path = last_call.path

\* C5: two create_service_account_key calls in succession for the same
\* account whose key stays valid make at most one remote create call and
\* leave exactly one key file of that account.
ProvisioningIdempotent ==
    (two_calls_for_same_account /\ key_stays_valid) =>
        /\ prev_call.create_calls + last_call.create_calls <= 1
        /\ Cardinality(account_files(keys_directory,
                                     sa_email_of(last_call.path))) = 1

ProvisioningIdempotentWitness ==
    /\ two_calls_for_same_account
    /\ key_stays_valid
    /\ prev_call.create_calls = 1
    /\ last_call.create_calls = 0

\* C6: starting from the empty folder, the folder never holds two key files
\* with the same client_email.
OneFilePerEmail ==
    \A f, g \in DOMAIN keys_directory :
        (/\ f # g
         /\ keys_directory[f].valid_json
         /\ keys_directory[g].valid_json
         /\ keys_directory[f].client_email # "")
            => keys_directory[f].client_email # keys_directory[g].client_email

\* an invalid key that could not be removed was replaced by a new one, next
\* to the key of another account
OneFilePerEmailWitness ==
    /\ last_call.op = "create"
    /\ ~ last_call.found
    /\ last_call.rm_failed # {}
    /\ Cardinality(DOMAIN keys_directory) = 2
    /\ \E f \in DOMAIN last_call.before :
          /\ f \in DOMAIN keys_directory
          /\ keys_directory[f] # last_call.before[f]

-----------------------------------------------------------------------------
(* Properties of the rate-limit wrapper *)

wrapper_returned == wrapped_call # NotCalled

\* the wrapped call raises a 429 on its first n invocations
throttled(n) == \A i \in 1..n : func_outcomes[i] = HttpError(429)

\* C7: a call that raises 429 exactly N times (N < max_retries) and then
\* succeeds makes the wrapper return that result after N+1 invocations and
\* N sleeps of 2^1, 2^2, ..., 2^N seconds, in that order.
SuccessAfterThrottling ==
    wrapper_returned =>
        \A n \in 0..(max_retries - 1) :
            (throttled(n) /\ func_outcomes[n + 1].kind = "return") =>
                /\ wrapped_call.result = func_outcomes[n + 1]
                /\ wrapped_call.calls = n + 1
                /\ wrapped_call.sleeps = [i \in 1..n |-> 2 ^ i]

SuccessAfterThrottlingWitness ==
    /\ wrapper_returned
    /\ throttled(3)
    /\ func_outcomes[4].kind = "return"
    /\ wrapped_call.sleeps = <<2, 4, 8>>

\* C8: when every one of the max_retries attempts raises 429, the wrapper
\* ends with an error the caller can tell is a rate-limit failure (the 429
\* error or a rate-limit-exceeded error), not with a value.
ExhaustionRaisesRateLimitError ==
    (wrapper_returned /\ throttled(max_retries)) =>
        /\ wrapped_call.result.kind # "return"
        /\ wrapped_call.calls = max_retries
        /\ \/ wrapped_call.result = HttpError(429)
           \/ wrapped_call.result.name = "RateLimitExceeded"

\* C9: when the wrapped call fails with an error that is not a 429, the
\* wrapper ends with that same error, at that invocation, having slept only
\* for the 429s before it.
NonThrottlingFailurePropagates ==
    wrapper_returned =>
        \A k \in 1..max_retries :
            (/\ throttled(k - 1)
             /\ func_outcomes[k].kind # "return"
             /\ func_outcomes[k] # HttpError(429)) =>
                /\ wrapped_call.result = func_outcomes[k]
                /\ wrapped_call.calls = k
                /\ Len(wrapped_call.sleeps) = k - 1

NonThrottlingFailurePropagatesWitness ==
    /\ wrapper_returned
    /\ func_outcomes[1] = HttpError(429)
    /\ func_outcomes[2] = HttpError(500)
    /\ wrapped_call.result = HttpError(500)
    /\ wrapped_call.calls = 2

-----------------------------------------------------------------------------
(* Properties of OAuthEnumerator *)

\* the three factors, counted from what the enumerator was constructed over
catalog_size ==
    IF scopes_file = NoFile THEN 0
    ELSE Cardinality({strip(scopes_file[i][1]) :
                        i \in {j \in 1..Len(scopes_file) :
                                  Len(scopes_file[j]) >= 2}})

key_count == Cardinality(DOMAIN keys_directory)

user_count == Cardinality({user_emails[i] : i \in 1..Len(user_emails)})

run_computed_total == pc \in {"validating", "done", "raised"}

\* C10: total_jwt_combinations is |keys| x |scopes| x |users| whatever the
\* three sizes are, and when a factor is zero run makes no refresh attempt.
TotalIsProductOfSizes ==
    LET expected == key_count * catalog_size * user_count
    IN  /\ total_jwt_combinations = expected
        /\ run_computed_total => total_combinations = expected
        /\ (expected = 0 /\ pc # "constructed") => attempted = <<>>

TotalIsProductOfSizesWitness ==
    /\ pc = "done"
    /\ user_count = 0
    /\ catalog_size = 2
    /\ key_count = 2
    /\ total_combinations = 0
    /\ attempted = <<>>

\* every (key file, user, scope) triple of the cross-product
all_triples ==
    { [json_path |-> path_join(KEYS_DIR, f), user_email |-> user_emails[u],
       scope |-> scopes[i]] :
        f \in DOMAIN keys_directory, u \in 1..Len(user_emails),
        i \in 1..Len(scopes) }

times_attempted(jwt) ==
    Cardinality({i \in 1..Len(attempted) : attempted[i] = jwt})

\* run went past its three precondition checks and has ended
scan_ended == pc \in {"done", "raised"}

last_attempted == attempted[Len(attempted)]

\* C11: when run passes its preconditions, creds.refresh is called exactly
\* once for every (key file, user, scope) triple, so the number of attempts
\* is |keys| x |scopes| x |users|, whatever the earlier attempts did.
ExhaustiveScan ==
    scan_ended =>
        /\ \A jwt \in all_triples : times_attempted(jwt) = 1
        /\ Len(attempted) = key_count * catalog_size * user_count

\* C12: a combination whose refresh raises RefreshError changes neither
\* valid_results nor confirmed_dwd_keys, and a key in confirmed_dwd_keys has
\* a combination whose tokeninfo request returned 200.
RefreshErrorRecordsNothing ==
    /\ [][(attempted' # attempted /\ last_outcome' = "RefreshError") =>
              /\ valid_results' = valid_results
              /\ confirmed_dwd_keys' = confirmed_dwd_keys]_vars
    /\ [](\A k \in 1..Len(confirmed_dwd_keys) :
              \E jwt \in granted : jwt.json_path = confirmed_dwd_keys[k])

\* the last combination of the scan raised RefreshError; its key is confirmed
\* by another combination
RefreshErrorRecordsNothingWitness ==
    /\ pc = "done"
    /\ last_outcome = "RefreshError"
    /\ last_attempted \notin granted
    /\ in_seq(last_attempted.json_path, confirmed_dwd_keys)
    /\ Len(confirmed_dwd_keys) = 1
    /\ key_count = 2

\* C13: valid_results and confirmed_dwd_keys change only in an iteration
\* whose refresh succeeded and whose tokeninfo response had status 200, and
\* every (key, scope) recorded has such a combination.
RecordedOnlyAfterIntrospection200 ==
    /\ [][(valid_results' # valid_results
              \/ confirmed_dwd_keys' # confirmed_dwd_keys) =>
              /\ attempted' # attempted
              /\ last_outcome' = "tokeninfo 200"]_vars
    /\ [](\A p \in DOMAIN valid_results :
              \A i \in 1..Len(valid_results[p]) :
                  /\ in_seq(p, confirmed_dwd_keys)
                  /\ \E jwt \in granted :
                        /\ jwt.json_path = p
                        /\ jwt.scope = valid_results[p][i])

\* a minted token whose tokeninfo response was 400 left no trace, next to a
\* key that was recorded
RecordedOnlyAfterIntrospection200Witness ==
    /\ pc = "done"
    /\ last_outcome = "tokeninfo 400"
    /\ DOMAIN valid_results # {}
    /\ last_attempted.json_path \notin DOMAIN valid_results
    /\ ~ in_seq(last_attempted.json_path, confirmed_dwd_keys)

\* C14: a key file that cannot be loaded, or an exception in one
\* combination, stops only that combination or key: every combination of
\* every key file that can be loaded is still attempted.
BadKeyConfined ==
    scan_ended =>
        \A jwt \in all_triples :
            loadable(keys_directory[basename(jwt.json_path)]) =>
                times_attempted(jwt) >= 1

\* what run reports after a scan in which no tokeninfo request returned 200
empty_scan_report ==
    [ returned |-> "None", confirmed_dwd_keys |-> <<>>,
      valid_results |-> <<>> ]

\* C15: when the key folder is missing or empty, run ends without a single
\* creds.refresh or tokeninfo request, and what it reports to its caller
\* differs from what a scan that found nothing reports.
NoKeysStopIsDistinguishable ==
    /\ (pc = "done" /\ granted = {}) => run_reports = empty_scan_report
    /\ pc = "no keys" =>
          /\ attempted = <<>>
          /\ jwt_objects = <<>>
          /\ run_reports # empty_scan_report

-----------------------------------------------------------------------------
(* Properties of ServiceAccountEnumerator *)

\* the accounts for which both role lists were fetched
decided_entries ==
    {i \in 1..Len(enum_log) :
        enum_log[i].outcome \in {"create_service_account_key",
                                 "no relevant roles"}}

grants_key_creation(role) ==
    "iam.serviceAccountKeys.create" \in includedPermissions(role)

\* create_service_account_key was invoked for the account of entry i
key_create_invoked(i) ==
    /\ enum_log[i].outcome = "create_service_account_key"
    /\ i = Len(enum_log) =>
          (last_call.op = "create" /\ last_call.path = enum_log[i].account)

\* C17 as stated: create_service_account_key is invoked for an account if
\* and only if its role set holds a role whose permissions include
\* iam.serviceAccountKeys.create.
CandidateIffRoleGrantsKeyCreation ==
    \A i \in decided_entries :
        key_create_invoked(i) <=>
            \E role \in enum_log[i].all_roles : grants_key_creation(role)

\* C17 amended: create_service_account_key is invoked for an account if and
\* only if its role set holds a role whose lookup succeeded and whose
\* permissions include iam.serviceAccountKeys.create; a role whose lookup
\* raises counts as a role without the permission.
CandidateIffLookedUpRoleGrantsKeyCreation ==
    \A i \in decided_entries :
        /\ key_create_invoked(i) <=>
              \E role \in enum_log[i].all_roles \ enum_log[i].lookup_fails :
                  grants_key_creation(role)
        /\ (\A role \in enum_log[i].all_roles : ~ grants_key_creation(role))
              => ~ key_create_invoked(i)

\* the first account has a granting role from its own policy and got a key,
\* the second has only roles that grant nothing and got none
CandidateIffLookedUpRoleGrantsKeyCreationWitness ==
    /\ enum_pc = "returned"
    /\ Len(enum_log) = 2
    /\ key_create_invoked(1)
    /\ enum_log[1].all_roles =
           {"roles/viewer", "roles/iam.serviceAccountKeyAdmin"}
    /\ enum_log[1].lookup_fails = {"roles/viewer"}
    /\ enum_log[2].outcome = "no relevant roles"
    /\ enum_log[2].all_roles = {"roles/viewer"}
    /\ DOMAIN keys_directory = {file_name_of(enum_log[1].account)}

\* C20: when serviceAccounts().list of a project or the getIamPolicy call of
\* a service account fails, that resource is skipped and every remaining
\* project and account is still processed.
PerResourceErrorsSkipped ==
    (/\ enum_pc \in {"returned", "raised"}
     /\ \A i \in 1..Len(enum_log) :
           i \in decided_entries
              \/ enum_log[i].outcome \in {"list raised", "sa policy raised"})
        => Len(enum_log) = Len(enumeration_order(Projects))

-----------------------------------------------------------------------------
(* Properties of DomainUserEnumerator *)

\* the user: members that pass the two tests, in the order the projects,
\* their bindings and their members are visited
RECURSIVE eligible_in_members(_)
eligible_in_members(members) ==
    IF members = <<>> THEN <<>>
    ELSE (IF /\ Head(members).prefix = "user"
             /\ Len(Head(members).identifier) >= 2
             /\ ~ endswith_gserviceaccount(Head(members).identifier)
          THEN <<Head(members).identifier>> ELSE <<>>)
         \o eligible_in_members(Tail(members))

RECURSIVE eligible_in_bindings(_)
eligible_in_bindings(bindings) ==
    IF bindings = <<>> THEN <<>>
    ELSE eligible_in_members(Head(bindings).members)
         \o eligible_in_bindings(Tail(bindings))

RECURSIVE eligible_in_projects(_)
eligible_in_projects(projects) ==
    IF projects = <<>> THEN <<>>
    ELSE eligible_in_bindings(project_policies[Head(projects)])
         \o eligible_in_projects(Tail(projects))

eligible_users == eligible_in_projects(Projects)

domain_of(email) == email[Len(email)]

\* C18: the mapping list_unique_domain_users returns has at most one email
\* per domain, every email is keyed under its own domain, and no email ends
\* with .gserviceaccount.com.
OneUserPerDomain ==
    domain_users_call = "returned" =>
        /\ \A i, j \in 1..Len(single_test_email) :
              i # j => single_test_email[i][1] # single_test_email[j][1]
        /\ \A i \in 1..Len(single_test_email) :
              /\ Len(single_test_email[i][2]) = 2
              /\ domain_of(single_test_email[i][2]) = single_test_email[i][1]
              /\ ~ endswith_gserviceaccount(single_test_email[i][2])

\* three domains were recorded from policies that also bind a user: member
\* with a service-account address
OneUserPerDomainWitness ==
    /\ domain_users_call = "returned"
    /\ Len(single_test_email) = 3
    /\ \E p \in DOMAIN project_policies :
          \E b \in 1..Len(project_policies[p]) :
              \E m \in 1..Len(project_policies[p][b].members) :
                  /\ project_policies[p][b].members[m].prefix = "user"
                  /\ endswith_gserviceaccount(
                         project_policies[p][b].members[m].identifier)

\* C19: for every domain the mapping holds the first eligible user: member
\* of that domain in iteration order, so every domain with an eligible
\* member in some binding has an entry.
FirstEligibleUserOfEveryDomain ==
    domain_users_call = "returned" =>
        \A k \in 1..Len(eligible_users) :
            LET domain == domain_of(eligible_users[k])
                first == CHOOSE n \in 1..k :
                            /\ domain_of(eligible_users[n]) = domain
                            /\ \A m \in 1..(n - 1) :
                                  domain_of(eligible_users[m]) # domain
            IN  \E i \in 1..Len(single_test_email) :
                    single_test_email[i] = <<domain, eligible_users[first]>>

-----------------------------------------------------------------------------
(* Properties of the enum command *)

\* a precondition kept any scan from starting
precondition_failed ==
    \/ token = "unset"
    \/ pc \in {"no scopes file", "no scopes", "no keys"}

\* C16: the exit status is zero when the scan completed and non-zero when
\* the token is unset, the scopes file is missing or empty, or the key
\* folder is missing or empty.
ExitStatusTellsWhetherScanStarted ==
    cmd_pc = "exited" =>
        /\ pc = "done" => exit_status = 0
        /\ precondition_failed => exit_status # 0

-----------------------------------------------------------------------------
(* Properties of key creation inside the enumeration *)

\* the last account the enumeration reached had its remote create call fail
create_call_failed ==
    /\ enum_log # <<>>
    /\ enum_log[Len(enum_log)].outcome = "create_service_account_key"
    /\ last_call.op = "create"
    /\ last_call.path = enum_log[Len(enum_log)].account
    /\ ~ last_call.found
    /\ ~ last_call.created

\* C21: when the remote create call fails, create_service_account_key has
\* made exactly one create call, has written no key file, and has returned,
\* so the enumeration goes on with the remaining accounts.
FailedCreateIsReportedOnce ==
    create_call_failed =>
        /\ last_call.create_calls = 1
        /\ \A f \in DOMAIN keys_directory :
              /\ f \in DOMAIN last_call.before
              /\ keys_directory[f] = last_call.before[f]
        /\ enum_pc \in {"running", "returned"}
        /\ enum_pc = "returned" <=>
              Len(enum_log) = Len(enumeration_order(Projects))

\* the create call of the first account failed and the second account was
\* reached and got its key
FailedCreateIsReportedOnceWitness ==
    /\ enum_pc = "returned"
    /\ Len(enum_log) = 2
    /\ enum_log[1].outcome = "create_service_account_key"
    /\ enum_log[2].outcome = "create_service_account_key"
    /\ prev_call.op = "create"
    /\ prev_call.create_calls = 1
    /\ last_call.created
    /\ DOMAIN keys_directory = {file_name_of(enum_log[2].account)}

-----------------------------------------------------------------------------
(* Properties of the scopes file *)

\* the file is missing, cannot be read, or has no line of the form
\* scope|description
no_scope_catalog(file) ==
    \/ file \in {NoFile, UnreadableFile}
    \/ \A i \in 1..Len(file) : Len(file[i]) < 2

\* C22: for a missing, unreadable or malformed scopes file
\* read_scopes_from_file returns the empty mapping and raises nothing: the
\* OAuthEnumerator is constructed and run ends at one of its printed stops.
ScopesFileFailsSoftly ==
    no_scope_catalog(scopes_file) =>
        /\ scopes = <<>>
        /\ pc \in {"constructed", "no scopes file", "no scopes"}
        /\ attempted = <<>>

\* run was called on an enumerator built from an unreadable or malformed
\* file
ScopesFileFailsSoftlyWitness ==
    /\ scopes_file \in {UnreadableFile, <<ScopeLines[2]>>}
    /\ scopes = <<>>
    /\ pc = "no scopes"

-----------------------------------------------------------------------------
(* Properties of identity resolution *)

\* C23: with a bearer token for which introspection returns no email and
\* whose issuing client no visible service account has, the command ends
\* with status 1 and no service account was enumerated, no key was
\* requested or written and no combination was probed.
UnattributedTokenIsFatal ==
    token = "unattributed" =>
        /\ cmd_pc \in {"command", "exited"}
        /\ cmd_pc = "exited" => exit_status = 1
        /\ enum_pc = "idle"
        /\ enum_log = <<>>
        /\ last_call = NoCall
        /\ DOMAIN keys_directory = {}
        /\ remote_keys = {}
        /\ pc = "idle"
        /\ attempted = <<>>

\* the command has ended on such a token
UnattributedTokenIsFatalWitness ==
    /\ token = "unattributed"
    /\ cmd_pc = "exited"
    /\ exit_status = 1

-----------------------------------------------------------------------------
(* Properties of the role computation *)

\* the roles of the bindings that have a member equal to the caller's email
roles_binding_the_caller(bindings) ==
    { bindings[i].role : i \in
        { k \in 1..Len(bindings) :
            \E j \in 1..Len(bindings[k].members) :
                bindings[k].members[j].identifier = enumerator_user_email } }

\* C24: for every account whose policies were fetched, the role computation
\* completes without error and yields the roles of exactly the project-level
\* and account-level bindings that have the caller's email as a member,
\* whatever other members (serviceAccount:, allUsers) the bindings hold.
RolesComputedForEveryMemberShape ==
    \A i \in 1..Len(enum_log) :
        LET entry == enum_log[i]
            account == CHOOSE a \in ServiceAccounts :
                           account_name(a) = entry.account
        IN  entry.outcome \notin {"list raised", "project policy raised",
                                  "sa policy raised"} =>
                /\ entry.outcome # "ValueError"
                /\ entry.all_roles =
                       roles_binding_the_caller(
                           project_policies[account.project])
                       \cup roles_binding_the_caller(
                                sa_policies[entry.account])

-----------------------------------------------------------------------------
(* Properties of invalid existing keys *)

\* the files the folder held for the account of the last create call
files_of_target ==
    account_files(last_call.before, sa_email_of(last_call.path))

\* the file is still in the folder with the content it had before the call
kept_as_it_was(f) ==
    /\ f \in DOMAIN keys_directory
    /\ keys_directory[f] = last_call.before[f]

\* C25 as stated: when the folder holds a file for the target account whose
\* refresh fails, create_service_account_key requests a new remote key and
\* afterwards no such file is left as it was.
InvalidKeyNeverKept ==
    ( /\ last_call.op = "create"
      /\ files_of_target \ last_call.refresh_ok # {} ) =>
        /\ last_call.create_calls = 1
        /\ \A f \in files_of_target \ last_call.refresh_ok :
              ~ kept_as_it_was(f)

\* C25 amended: when the folder holds files for the target account and the
\* refresh of every one of them fails, create_service_account_key requests
\* a new remote key exactly once, and afterwards a file of the account is
\* left as it was only if its os.remove failed.
InvalidKeyKeptOnlyWhenRemoveFails ==
    ( /\ last_call.op = "create"
      /\ files_of_target # {}
      /\ files_of_target \cap last_call.refresh_ok = {} ) =>
        /\ ~ last_call.found
        /\ last_call.create_calls = 1
        /\ \A f \in files_of_target :
              kept_as_it_was(f) => f \in last_call.rm_failed
        /\ \A f \in last_call.rm_failed : f \in DOMAIN keys_directory

\* an invalid file was removed and the new key was written
InvalidKeyKeptOnlyWhenRemoveFailsWitness ==
    /\ last_call.op = "create"
    /\ files_of_target # {}
    /\ files_of_target \cap last_call.refresh_ok = {}
    /\ last_call.rm_failed = {}
    /\ last_call.created
    /\ account_files(keys_directory, sa_email_of(last_call.path))
           = {file_name_of(last_call.path)}
    /\ files_of_target \cap DOMAIN keys_directory = {}

-----------------------------------------------------------------------------
(* Properties of throttling inside the enumeration *)

\* C26: a 429 answer to the listing of a project's service accounts, to
\* the fetch of a project policy or to the fetch of a service account
\* policy is retried after a sleep: the call is made again and the 429 does
\* not end the enumeration.
ThrottlingRetriedUniformly ==
    \A i \in 1..Len(enum_log) :
        enum_log[i].throttled # "none" =>
            /\ enum_log[i].calls = 2
            /\ enum_log[i].sleeps = <<sleep_time(0)>>
            /\ enum_log[i].outcome \notin
                   {"list raised", "project policy raised",
                    "sa policy raised"}

-----------------------------------------------------------------------------
(* Properties of the sleeps of the rate-limit wrapper *)

\* C27: in every execution of the wrapper the wrapped call is invoked at
\* most max_retries times and the number of sleeps is the number of
\* invocations minus one: sleeps happen between attempts only, none after
\* the last attempt.
SleepsOnlyBetweenAttempts ==
    wrapper_returned =>
        /\ wrapped_call.calls <= max_retries
        /\ Len(wrapped_call.sleeps) = wrapped_call.calls - 1

-----------------------------------------------------------------------------
(* Properties of the result map *)

no_duplicates(seq) ==
    \A i, j \in 1..Len(seq) : seq[i] = seq[j] => i = j

\* C28: at every point of the scan, each scope appears at most once in the
\* list valid_results holds for a key, also when the same key and scope are
\* confirmed for several users.
ScopeRecordedOncePerKey ==
    \A json_path \in DOMAIN valid_results :
        no_duplicates(valid_results[json_path])

\* C29: at every step of the scan confirmed_dwd_keys has no duplicates and
\* holds exactly the key paths that have a non-empty scope list in
\* valid_results.
ConfirmedKeysMatchResults ==
    /\ no_duplicates(confirmed_dwd_keys)
    /\ seq_to_set(confirmed_dwd_keys) =
           {json_path \in DOMAIN valid_results :
                valid_results[json_path] # <<>>}

\* two keys are confirmed, one of them by more than one combination
ConfirmedKeysMatchResultsWitness ==
    /\ Len(confirmed_dwd_keys) = 2
    /\ \E json_path \in DOMAIN valid_results :
           Len(valid_results[json_path]) >= 2

-----------------------------------------------------------------------------
(* Properties of the cleanup at the end of check *)

\* the files the last delete_keys_without_dwd removed or made a remote
\* delete call for
deleted_by_cleanup ==
    { f \in DOMAIN last_call.before :
        \/ f \notin DOMAIN keys_directory
        \/ /\ f \in deletable(last_call.before)
           /\ key_name_of(last_call.before[f]) \in last_call.delete_calls }

\* every combination of the key file with a target user and a scope was
\* attempted
probed_in_full(f) ==
    \A i \in 1..Len(user_emails), k \in 1..Len(scopes) :
        in_seq([json_path |-> path_join(KEYS_DIR, f),
                user_email |-> user_emails[i],
                scope |-> scopes[k]], attempted)

\* C30: the cleanup of check deletes a key file, locally or remotely, only
\* when every (target user, scope) combination of that key was attempted
\* and none was confirmed; when run stopped at the missing or empty scopes
\* file, or there is no target user, it deletes nothing.
CleanupOnlyAfterProbing ==
    (cmd_pc = "exited" /\ last_call.op = "delete") =>
        \A f \in deleted_by_cleanup :
            /\ probed_in_full(f)
            /\ path_join(KEYS_DIR, f) \notin seq_to_set(confirmed_dwd_keys)
            /\ pc \notin {"no scopes file", "no scopes"}
            /\ user_emails # <<>>

====
